---- MODULE Spec2Model ----
(***************************************************************************)
(* The intermediate-operator node of the local execution engine            *)
(* (daft-local-execution/src/intermediate_ops/intermediate_op.rs): one      *)
(* distribution task (send_to_workers), a pool of worker tasks             *)
(* (run_worker), the capacity-1 worker channels between them, the          *)
(* multi-channel that merges the workers' outputs, and the consumer of the *)
(* node's output receiver.                                                 *)
(*                                                                         *)
(* Rows are numbered 1, 2, 3, ... in the order the children yield them, so *)
(* a partition is a sequence of row numbers and "the order the child       *)
(* yielded them" is the numeric order.                                     *)
(***************************************************************************)
EXTENDS Integers, Sequences, FiniteSets, TLC

\* ------------------------------------------------------------------ bounds
MaxWorkers == 2      \* widths of the worker pool explored: 1..MaxWorkers
MaxChildren == 2     \* numbers of children explored: 1..MaxChildren
MaxMorsel == 2       \* target morsel sizes explored: 1..MaxMorsel
MaxPartRows == 2     \* rows of one child partition: 1..MaxPartRows
MaxItems == 2        \* Spec: envelopes (or errors) all children yield together
DataItems == 3       \* DataSpec: partitions all children yield together
LiveItems == 4       \* LiveSpec: partitions the child yields
BufItems == 3        \* BufferSpec: partitions the child yields
BufPartRows == 3     \* BufferSpec: rows of one child partition
BufMorsel == 4       \* BufferSpec: target morsel sizes explored
MaxLanes == 2        \* BulkSpec: output lanes of the task tree: 1..MaxLanes
MaxCalls == 3        \* BulkSpec: send_output calls made on one collector
MaxValue == 2        \* BulkSpec: partition references sent: 1..MaxValue
MaxErrors == 2       \* BulkSpec: distinct errors sent: 1..MaxErrors
StartItems == 2      \* StartSpec: partitions all children yield together

VARIABLES
    maintain_order,     \* start's flag: order-preserving fan-in or first-ready
    num_workers,        \* *NUM_CPUS
    morsel_size,        \* runtime_handle.default_morsel_size()
    num_children,       \* self.children.len()
    next_row,           \* the number of the next row a child yields
    items_left,         \* envelopes the children may still yield
    part_rows,          \* the most rows a child puts in one partition
    idx,                \* send_to_workers: the lane (child) being read
    dpc,                \* send_to_workers: where the task is
    buffer,             \* send_to_workers: the lane's OperatorBuffer (its rows)
    next_worker_idx,    \* send_to_workers: the round-robin cursor
    dmsg,               \* send_to_workers: the (idx, envelope) being sent
    dtarget,            \* send_to_workers: the worker the pending send goes to
    dret,               \* send_to_workers: where it continues after the send
    wchan,              \* worker channels: queues of (idx, envelope), capacity 1
    wpc,                \* run_worker: where each worker task is
    wout,               \* run_worker: the partition the pending send carries
    ochan,              \* the output multi-channel: one queue per worker slot
    curr_receiver_idx,  \* the order-preserving receiver's cursor
    rx,                 \* the node's output receiver: open, closed or dropped
    consumed,           \* what the consumer has read from the output, in order
    op,                 \* the operator the node wraps (self.intermediate_op)
    runtime_stats,      \* self.runtime_stats: rows received and rows emitted
    wstate,             \* run_worker: each worker's `state` (op.make_state())
    st,                 \* IntermediateNode::start: how far it has got
    out,                \* SendToVec: *self.out, a DaftResult<Vec<Vec<T>>>
    calls,              \* SendToVec: the send_output calls made and their results
    hist                \* bookkeeping of what happened (not program state)

vars == << maintain_order, num_workers, morsel_size, num_children, next_row,
           items_left, part_rows, idx, dpc, buffer, next_worker_idx, dmsg, dtarget, dret,
           wchan, wpc, wout, ochan, curr_receiver_idx, rx, consumed, op,
           runtime_stats, wstate, st, out, calls, hist >>

config == << maintain_order, num_workers, morsel_size, num_children, op,
            part_rows >>
distVars == << idx, dpc, buffer, next_worker_idx, dmsg, dtarget, dret >>
childVars == << next_row, items_left >>
consumerVars == << curr_receiver_idx, rx, consumed >>
bulkVars == << out, calls >>
\* What no task of a started node changes.
frame == << config, st, bulkVars >>

Workers == 1..num_workers

\* ------------------------------------------------------- envelopes and rows
RowsFrom(first, n) == [i \in 1..n |-> first + i - 1]

Data(rows) == [kind |-> "Data", rows |-> rows]
ProbeTable(rows) == [kind |-> "ProbeTable", rows |-> rows]
NoMsg == [idx |-> 0, kind |-> "None", rows |-> << >>]
NoOut == [kind |-> "None", rows |-> << >>]
Msg(i, env) == [idx |-> i, kind |-> env.kind, rows |-> env.rows]

should_broadcast(env) == env.kind = "ProbeTable"

\* --------------------------------------------------------- OperatorBuffer
\* The buffer holds the rows pushed and not yet emitted, in push order.
BufferPush(buf, part) == buf \o part

NoBatch == [some |-> FALSE, batch |-> << >>, rest |-> << >>]

\* try_clear(): Some(batch of exactly the threshold) once the threshold is met.
try_clear(buf, threshold) ==
    IF Len(buf) >= threshold
    THEN [some |-> TRUE,
          batch |-> SubSeq(buf, 1, threshold),
          rest |-> SubSeq(buf, threshold + 1, Len(buf))]
    ELSE [NoBatch EXCEPT !.rest = buf]

\* clear_all(): the remainder, if there is one.
clear_all(buf) ==
    IF Len(buf) > 0
    THEN [some |-> TRUE, batch |-> buf, rest |-> << >>]
    ELSE NoBatch

\* ------------------------------------------------------------ the operator
\* What execute may return; the operator is an opaque capability.
Results == {"NeedMoreInput(Some)", "NeedMoreInput(None)", "HasMoreOutput", "Err"}

\* The operators explored, each by the results its execute may return for an
\* input: an identity-like one, one that may hold its input back, one that
\* may announce more output, and one that may fail.
Operators == {"identity", "buffering", "draining", "fallible"}

\* A deterministic operator that holds back (NeedMoreInput(None)) every input
\* whose first row has an odd number and passes the others on.
HeldBack(m) == Len(m.rows) > 0 /\ Head(m.rows) % 2 = 1

ResultsOf(o, m) ==
    CASE o = "identity" -> {"NeedMoreInput(Some)"}
      [] o = "buffering" -> {"NeedMoreInput(Some)", "NeedMoreInput(None)"}
      [] o = "draining" -> {"NeedMoreInput(Some)", "HasMoreOutput"}
      [] o = "fallible" -> {"NeedMoreInput(Some)", "Err"}
      [] o = "selective" -> IF HeldBack(m) THEN {"NeedMoreInput(None)"}
                            ELSE {"NeedMoreInput(Some)"}

\* ------------------------------------------------------- runtime statistics
\* RuntimeStatsContext: the node's two row counters.
NoStats == [rows_received |-> 0, rows_emitted |-> 0]
mark_rows_received(s, n) == [s EXCEPT !.rows_received = @ + n]
mark_rows_emitted(s, n) == [s EXCEPT !.rows_emitted = @ + n]

\* A count that leaves broadcast envelopes out.
ReceivedLenDataOnly(m) == IF m.kind = "Data" THEN Len(m.rows) ELSE 0

\* Lines 83-88: data.len() for Data, the sum of the tables' lengths for
\* ProbeTable; an envelope carries its rows as one sequence here.
ReceivedLen(m) == Len(m.rows)

\* CountingSender::send: every send adds the envelope's row count to the
\* emitted-row counter; the send itself is the wrapped sender's.
CountingSend(s, env) == mark_rows_emitted(s, Len(env.rows))

\* ------------------------------------------------------------ operator state
\* `state` of a worker: how many times it called make_state, the object it
\* got (0: none yet) and whether the object has been dropped.
NoState == [made |-> 0, obj |-> 0, dropped |-> FALSE]

RECURSIVE MadeBy(_)
\* The make_state calls made by workers 1..n.
MadeBy(n) == IF n = 0 THEN 0 ELSE wstate[n].made + MadeBy(n - 1)

\* op.make_state() (line 81, trait lines 37-39): a new object for each call,
\* for an operator that has state.
make_state == MadeBy(num_workers) + 1

\* ---------------------------------------------------------------- start state
\* start has not been called: no child started, nothing created or spawned.
NotStarted ==
    [pc |-> "children", started |-> << >>, channel |-> FALSE, spawned |-> 0,
     dist |-> FALSE, result |-> "none", log |-> << >>]

\* child.start(maintain_order, runtime_handle) (line 206): which child, the
\* flag it was given and whether it returned Ok.
ChildStart(i, flag, ok) == [child |-> i, order |-> flag, ok |-> ok]

\* start has returned Ok: every child was started in order with the flag,
\* then the multi-channel was created, the workers and the distribution task
\* were spawned.
Started ==
    [pc |-> "returned",
     started |-> [i \in 1..num_children |-> ChildStart(i, maintain_order, TRUE)],
     channel |-> TRUE, spawned |-> num_workers, dist |-> TRUE, result |-> "Ok",
     log |-> [i \in 1..num_children |-> "child"] \o << "channel" >>
               \o [i \in 1..num_workers |-> "worker"] \o << "dist", "return" >>]

\* ------------------------------------------------------------ bulk collector
\* No collector in use.
NoCollector == [ok |-> TRUE, lanes |-> << >>, err |-> 0]

\* bulk.rs lines 42-45: output = Ok(num_outputs empty vectors), and
\* SendToVec::new(&mut output).
SendToVecNew(num_outputs) ==
    [ok |-> TRUE, lanes |-> [i \in 1..num_outputs |-> << >>], err |-> 0]

\* The arguments of send_output: Ok(value) with a vector of partition
\* references, or Err(e).
OkArg(value) == [kind |-> "Ok", value |-> value, err |-> 0]
ErrArg(e) == [kind |-> "Err", value |-> << >>, err |-> e]

\* Lines 76-81: lanes and values zipped, each value pushed on its lane; zip
\* stops at the shorter of the two.
PushZipped(lanes, value) ==
    [i \in 1..Len(lanes) |->
        IF i <= Len(value) THEN Append(lanes[i], value[i]) ELSE lanes[i]]

\* Line 86: *self.out = Err(e).
StoreErr(o, e) == [ok |-> FALSE, lanes |-> << >>, err |-> e]

\* ------------------------------------------------------------------- Init
\* The state right after start() has returned: the workers and the distribution
\* task are spawned, every worker has made its state and awaits its first
\* input, every channel is empty, no child has been read.
NoHist ==
    [probe |-> FALSE,                          \* a child yielded a ProbeTable
     via |-> "none",                           \* what produced the pending send
     dsends |-> << >>,                         \* the distribution task's sends
     pushed |-> [i \in 1..num_children |-> << >>], \* per lane: sizes pushed
     log |-> [w \in Workers |-> << >>],        \* per worker: (input, result)
     osent |-> [w \in Workers |-> 0],          \* per worker: output sends accepted
     ofail |-> [w \in Workers |-> 0]]          \* per worker: output sends failed

\* A start state: the node is built over `children` children and an operator of
\* `ops`, and started with a pool of `workers` workers, target size `morsel`
\* and the flag `order`; the children yield at most `items` envelopes of at
\* most `rows` rows.
InitNode(order, workers, morsel, children, ops, items, rows) ==
    /\ maintain_order \in order
    /\ num_workers \in workers
    /\ morsel_size \in morsel
    /\ num_children \in children
    /\ op \in ops
    /\ next_row = 1
    /\ items_left = items
    /\ part_rows = rows
    /\ idx = 1
    /\ dpc = "recv"
    /\ buffer = << >>
    /\ next_worker_idx = 1
    /\ dmsg = NoMsg
    /\ dtarget = 0
    /\ dret = "recv"
    /\ wchan = [w \in Workers |-> << >>]
    /\ wpc = [w \in Workers |-> "recv"]
    /\ wout = [w \in Workers |-> NoOut]
    /\ ochan = [w \in Workers |-> << >>]
    /\ curr_receiver_idx = 1
    /\ rx = "open"
    /\ consumed = << >>
    /\ runtime_stats = NoStats
    /\ wstate = [w \in Workers |-> [made |-> 1, obj |-> w, dropped |-> FALSE]]
    /\ st = Started
    /\ hist = NoHist

InitWith(order, workers, morsel, children, ops, items, rows) ==
    /\ InitNode(order, workers, morsel, children, ops, items, rows)
    /\ out = NoCollector
    /\ calls = << >>

Init ==
    InitWith(BOOLEAN, 1..MaxWorkers, 1..MaxMorsel, 1..MaxChildren, Operators,
             MaxItems, MaxPartRows)

\* ------------------------------------------------------ channel primitives
\* create_channel(1): a bounded queue of capacity 1.
WorkerChannelCapacity == 1

\* The slots of the output multi-channel hold one envelope each.
OutputSlotCapacity == 1

\* A worker task that has returned has dropped its receiver and its output sender.
WorkerGone(w) == wpc[w] \in {"ok", "err"}

\* send_to_workers has returned: worker_senders is dropped, the channels close.
DistFinished == dpc \in {"done", "err"}

\* A send on a worker channel: fails at once when the receiver is gone, is
\* accepted when the queue has room, and otherwise stays pending.
SendFails(w) == WorkerGone(w)
SendAccepted(w) == ~WorkerGone(w) /\ Len(wchan[w]) < WorkerChannelCapacity
Enqueue(q, m) == Append(q, m)

\* ------------------------------------------------- send_to_workers (lines 128-165)
\* A cursor that moves on by two.
NextCursorSkipping(i, n) == ((i + 1) % n) + 1

\* The round-robin cursor after one send_to_next_worker call (0-based in the
\* code, 1-based here).
NextCursor(i, n) == (i % n) + 1

\* send_to_next_worker(idx, data): picks the cursor's sender, advances the
\* cursor and leaves the send pending.
SendToNextWorker(i, env, via, ret, h) ==
    /\ dmsg' = Msg(i, env)
    /\ dtarget' = next_worker_idx
    /\ next_worker_idx' = NextCursor(next_worker_idx, num_workers)
    /\ dpc' = "send"
    /\ dret' = ret
    /\ hist' = [h EXCEPT !.via = via]

\* The for loop moves to the next receiver, with a new OperatorBuffer, or ends.
NextLane ==
    /\ idx' = idx + 1
    /\ buffer' = << >>
    /\ dpc' = IF idx + 1 > num_children THEN "done" ELSE "recv"
    /\ dmsg' = NoMsg
    /\ dtarget' = 0
    /\ dret' = "recv"

\* Flush without the clear_all of lines 160-162: the remainder is never sent.
FlushWithoutRemainder ==
    LET ready == try_clear(buffer, morsel_size)
    IN IF ready.some
       THEN /\ SendToNextWorker(idx, Data(ready.batch), "try_clear", "flush", hist)
            /\ buffer' = ready.rest
            /\ UNCHANGED idx
       ELSE /\ NextLane
            /\ UNCHANGED << next_worker_idx, hist >>

\* A flush that sends whatever is buffered as one batch.
FlushAllAtOnce ==
    LET last == clear_all(buffer)
    IN IF last.some
       THEN /\ SendToNextWorker(idx, Data(last.batch), "clear_all", "next", hist)
            /\ buffer' = last.rest
            /\ UNCHANGED idx
       ELSE /\ NextLane
            /\ UNCHANGED << next_worker_idx, hist >>

\* Lines 155-162: the full batches left, then the remainder, then the next lane.
Flush ==
    LET ready == try_clear(buffer, morsel_size)
        last == clear_all(buffer)
    IN IF ready.some
       THEN /\ SendToNextWorker(idx, Data(ready.batch), "try_clear", "flush", hist)
            /\ buffer' = ready.rest
            /\ UNCHANGED idx
       ELSE IF last.some
       THEN /\ SendToNextWorker(idx, Data(last.batch), "clear_all", "next", hist)
            /\ buffer' = last.rest
            /\ UNCHANGED idx
       ELSE /\ NextLane
            /\ UNCHANGED << next_worker_idx, hist >>

\* A distribution task that passes each partition on as it comes, unbatched.
DistRecvDataUnbatched ==
    /\ dpc = "recv"
    /\ items_left > 0
    /\ \E n \in 1..part_rows :
        /\ next_row' = next_row + n
        /\ buffer' = buffer
        /\ SendToNextWorker(idx, Data(RowsFrom(next_row, n)), "try_clear", "recv",
                            [hist EXCEPT !.pushed[idx] = Append(@, n)])
    /\ items_left' = items_left - 1
    /\ UNCHANGED << frame, runtime_stats, wstate,
                    idx, wchan, wpc, wout, ochan, consumerVars >>

\* receiver.recv() yields Some(Ok(Data)): push, then one try_clear (lines 149-152).
DistRecvData ==
    /\ dpc = "recv"
    /\ items_left > 0
    /\ \E n \in 1..part_rows :
        LET pushed == BufferPush(buffer, RowsFrom(next_row, n))
            ready == try_clear(pushed, morsel_size)
            h == [hist EXCEPT !.pushed[idx] = Append(@, n)]
        IN /\ next_row' = next_row + n
           /\ buffer' = ready.rest
           /\ IF ready.some
              THEN SendToNextWorker(idx, Data(ready.batch), "try_clear", "recv", h)
              ELSE /\ hist' = h
                   /\ UNCHANGED << dmsg, dtarget, next_worker_idx, dpc, dret >>
    /\ items_left' = items_left - 1
    /\ UNCHANGED << frame, runtime_stats, wstate,
                    idx, wchan, wpc, wout, ochan, consumerVars >>

\* receiver.recv() yields Some(Ok(ProbeTable)): the broadcast loop starts (144-147).
DistRecvBroadcast ==
    /\ dpc = "recv"
    /\ items_left > 0
    /\ dmsg' = Msg(idx, ProbeTable(RowsFrom(next_row, 1)))
    /\ next_row' = next_row + 1
    /\ items_left' = items_left - 1
    /\ dtarget' = 1
    /\ dpc' = "bcast"
    /\ hist' = [hist EXCEPT !.probe = TRUE, !.via = "broadcast"]
    /\ UNCHANGED << frame, runtime_stats, wstate,
                    idx, buffer, next_worker_idx, dret, wchan, wpc, wout,
                    ochan, consumerVars >>

\* A distribution task that sends what the lane has buffered before it
\* returns the child's error.
DistRecvErrFlushing ==
    /\ dpc = "recv"
    /\ items_left > 0
    /\ items_left' = items_left - 1
    /\ IF buffer = << >>
       THEN /\ dpc' = "err"
            /\ UNCHANGED << buffer, next_worker_idx, dmsg, dtarget, dret, hist >>
       ELSE /\ SendToNextWorker(idx, Data(buffer), "clear_all", "err", hist)
            /\ buffer' = << >>
    /\ UNCHANGED << frame, runtime_stats, wstate, next_row, idx, wchan, wpc, wout,
                    ochan, consumerVars >>

\* receiver.recv() yields Some(Err(e)): `morsel?` returns the error (line 143).
DistRecvErr ==
    /\ dpc = "recv"
    /\ items_left > 0
    /\ items_left' = items_left - 1
    /\ dpc' = "err"
    /\ UNCHANGED << frame, runtime_stats, wstate,
                    next_row, idx, buffer, next_worker_idx, dmsg, dtarget,
                    dret, wchan, wpc, wout, ochan, consumerVars, hist >>

\* A distribution task that takes the next child without flushing the lane,
\* and carries what is buffered over.
DistRecvClosedWithoutFlush ==
    /\ dpc = "recv"
    /\ idx' = idx + 1
    /\ dpc' = IF idx + 1 > num_children THEN "done" ELSE "recv"
    /\ UNCHANGED << frame, runtime_stats, wstate, childVars, buffer, next_worker_idx,
                    dmsg, dtarget, dret, wchan, wpc, wout, ochan, consumerVars, hist >>

\* receiver.recv() yields None: the child has closed (line 142 ends, 155-162).
DistRecvClosed ==
    /\ dpc = "recv"
    /\ Flush
    /\ UNCHANGED << frame, runtime_stats, wstate,
                    childVars, wchan, wpc, wout, ochan, consumerVars >>

\* A send that never waits: it replaces whatever the queue holds.
ResolveOverwriting(w) ==
    /\ wchan' = IF WorkerGone(w) THEN wchan ELSE [wchan EXCEPT ![w] = << dmsg >>]
    /\ hist' = [hist EXCEPT !.dsends = Append(@,
                   [to |-> w, msg |-> dmsg, via |-> hist.via, ok |-> ~WorkerGone(w)])]

\* One pending send on a worker channel resolves: accepted or failed (`let _ =`).
Resolve(w) ==
    /\ SendFails(w) \/ SendAccepted(w)
    /\ wchan' = IF SendAccepted(w)
                THEN [wchan EXCEPT ![w] = Enqueue(@, dmsg)]
                ELSE wchan
    /\ hist' = [hist EXCEPT !.dsends = Append(@,
                   [to |-> w, msg |-> dmsg, via |-> hist.via, ok |-> SendAccepted(w)])]

\* The send of send_to_next_worker completes (lines 151, 157, 161).
DistSend ==
    /\ dpc = "send"
    /\ Resolve(dtarget)
    /\ IF dret = "next"
       THEN NextLane
       ELSE /\ dpc' = dret
            /\ dmsg' = NoMsg
            /\ dtarget' = 0
            /\ dret' = "recv"
            /\ UNCHANGED << idx, buffer >>
    /\ UNCHANGED << frame, runtime_stats, wstate,
                    childVars, next_worker_idx, wpc, wout, ochan,
                    consumerVars >>

\* After a flush send the while loop of lines 156-158 goes on.
DistFlush ==
    /\ dpc = "flush"
    /\ Flush
    /\ UNCHANGED << frame, runtime_stats, wstate,
                    childVars, wchan, wpc, wout, ochan, consumerVars >>

\* A broadcast that reaches the first worker only.
DistBroadcastToOne ==
    /\ dpc = "bcast"
    /\ Resolve(dtarget)
    /\ dtarget' = 0
    /\ dpc' = "recv"
    /\ dmsg' = NoMsg
    /\ UNCHANGED << frame, runtime_stats, wstate,
                    childVars, idx, buffer, next_worker_idx, dret, wpc,
                    wout, ochan, consumerVars >>

\* One send of the broadcast loop completes (line 146).
DistBroadcast ==
    /\ dpc = "bcast"
    /\ Resolve(dtarget)
    /\ IF dtarget < num_workers
       THEN /\ dtarget' = dtarget + 1
            /\ UNCHANGED << dpc, dmsg >>
       ELSE /\ dtarget' = 0
            /\ dpc' = "recv"
            /\ dmsg' = NoMsg
    /\ UNCHANGED << frame, runtime_stats, wstate,
                    childVars, idx, buffer, next_worker_idx, dret, wpc,
                    wout, ochan, consumerVars >>

\* ------------------------------------------------------ run_worker (lines 74-102)
\* The results that carry a partition (lines 92 and 96).
HasPartition(r) == r \in {"NeedMoreInput(Some)", "HasMoreOutput"}

\* A worker that swallows execute's error and goes on with the next input.
AfterExecuteSwallowsError(r) ==
    CASE r = "Err" -> "recv"
      [] r = "NeedMoreInput(Some)" -> "send"
      [] r = "NeedMoreInput(None)" -> "recv"
      [] r = "HasMoreOutput" -> "send"

\* A worker that sends on the output after every successful execute.
AfterExecuteAlwaysSends(r) ==
    CASE r = "Err" -> "err"
      [] r = "NeedMoreInput(Some)" -> "send"
      [] r = "NeedMoreInput(None)" -> "send"
      [] r = "HasMoreOutput" -> "send"

\* Lines 90-99: `?` returns the error; a partition is sent on the output; after
\* NeedMoreInput(None) the loop receives again.
AfterExecute(r) ==
    CASE r = "Err" -> "err"
      [] r = "NeedMoreInput(Some)" -> "send"
      [] r = "NeedMoreInput(None)" -> "recv"
      [] r = "HasMoreOutput" -> "send"

\* Lines 93 and 97: `let _ = sender.send(..).await;` whatever the send returned,
\* the while loop goes back to receiver.recv().
AfterSend(accepted) == "recv"

\* The partition the operator returns: the rows of its input (the operators
\* modelled pass their input on or hold it back).
OutputOf(m) == Data(m.rows)

\* A worker that, when execute fails, leaves the input where it was and tries
\* again.
WorkerExecuteRetrying(w) ==
    /\ wpc[w] = "recv"
    /\ Len(wchan[w]) > 0
    /\ \E r \in ResultsOf(op, Head(wchan[w])) :
        LET m == Head(wchan[w])
        IN /\ runtime_stats' = mark_rows_received(runtime_stats, ReceivedLen(m))
           /\ wchan' = [wchan EXCEPT ![w] = IF r = "Err" THEN @ ELSE Tail(@)]
           /\ wpc' = [wpc EXCEPT ![w] = IF r = "Err" THEN "recv" ELSE AfterExecute(r)]
           /\ wout' = [wout EXCEPT ![w] = IF HasPartition(r) THEN OutputOf(m) ELSE NoOut]
           /\ wstate' = wstate
           /\ hist' = [hist EXCEPT !.log[w] =
                         Append(@, [msg |-> m, res |-> r, state |-> wstate[w].obj])]
    /\ UNCHANGED << frame, childVars, distVars, ochan, consumerVars >>

\* receiver.recv() yields Some((idx, morsel)): the rows are counted and execute is
\* called, with no await in between (lines 82-90).
WorkerExecute(w) ==
    /\ wpc[w] = "recv"
    /\ Len(wchan[w]) > 0
    /\ \E r \in ResultsOf(op, Head(wchan[w])) :
        LET m == Head(wchan[w])
        IN /\ runtime_stats' = mark_rows_received(runtime_stats, ReceivedLen(m))
           /\ wchan' = [wchan EXCEPT ![w] = IF r = "Err" THEN << >> ELSE Tail(@)]
           /\ wpc' = [wpc EXCEPT ![w] = AfterExecute(r)]
           /\ wout' = [wout EXCEPT ![w] = IF HasPartition(r) THEN OutputOf(m) ELSE NoOut]
           /\ wstate' = [wstate EXCEPT ![w].dropped = (AfterExecute(r) = "err")]
           /\ hist' = [hist EXCEPT !.log[w] =
                         Append(@, [msg |-> m, res |-> r, state |-> wstate[w].obj])]
    /\ UNCHANGED << frame, childVars, distVars, ochan, consumerVars >>

\* receiver.recv() yields None: the channel is empty and its sender dropped; the
\* task returns Ok(()) (line 101).
WorkerClosed(w) ==
    /\ wpc[w] = "recv"
    /\ Len(wchan[w]) = 0
    /\ DistFinished
    /\ wpc' = [wpc EXCEPT ![w] = "ok"]
    /\ wstate' = [wstate EXCEPT ![w].dropped = TRUE]
    /\ UNCHANGED << frame, runtime_stats,
                    childVars, distVars, wchan, wout, ochan, consumerVars,
                    hist >>

\* A send on the worker's slot of the output: fails when the node's receiver has
\* been dropped, is accepted when the slot has room, and otherwise stays pending.
OutputSendFails == rx = "dropped"
OutputSendAccepted(w) == rx # "dropped" /\ Len(ochan[w]) < OutputSlotCapacity

\* sender.send(mp.into()).await completes (lines 93 and 97).
WorkerSend(w) ==
    /\ wpc[w] = "send"
    /\ OutputSendFails \/ OutputSendAccepted(w)
    /\ ochan' = IF OutputSendAccepted(w)
                THEN [ochan EXCEPT ![w] = Enqueue(@, wout[w])]
                ELSE ochan
    /\ hist' = IF OutputSendAccepted(w)
               THEN [hist EXCEPT !.osent[w] = @ + 1]
               ELSE [hist EXCEPT !.ofail[w] = @ + 1]
    /\ wpc' = [wpc EXCEPT ![w] = AfterSend(OutputSendAccepted(w))]
    /\ wout' = [wout EXCEPT ![w] = NoOut]
    /\ runtime_stats' = CountingSend(runtime_stats, wout[w])
    /\ UNCHANGED << frame, wstate, childVars, distVars, wchan, consumerVars >>

\* ------------------------------------------- the output receiver and its consumer
\* A slot is closed once its worker has returned and the slot is drained.
SlotClosed(w) == WorkerGone(w) /\ Len(ochan[w]) = 0

\* A start that does not pass its flag on: the fan-in is always first-ready.
FanInNeverOrdered == FALSE

\* start (lines 209-210): create_multi_channel(*NUM_CPUS, maintain_order); the
\* fan-in is order-preserving exactly when start was given maintain_order.
FanInOrdered == maintain_order

\* The order-preserving receiver's cursor after it has yielded from slot w.
NextReceiverIdx(w, n) == (w % n) + 1

\* Order-preserving fan-in: the slots are read round-robin from the cursor; a
\* closed slot is skipped; 0 when every slot is closed.
SlotAt(i) == ((curr_receiver_idx - 1 + i) % num_workers) + 1
OpenOffsets == {i \in 0..(num_workers - 1) : ~SlotClosed(SlotAt(i))}
Min(S) == CHOOSE x \in S : \A y \in S : x <= y
TurnSlot == IF OpenOffsets = {} THEN 0 ELSE SlotAt(Min(OpenOffsets))

\* The slots the receiver may yield from next.
ReadySlots ==
    IF FanInOrdered
    THEN {w \in Workers : w = TurnSlot /\ Len(ochan[w]) > 0}
    ELSE {w \in Workers : Len(ochan[w]) > 0}

\* recv() on the node's output yields Some(envelope).
ConsumerRecv ==
    /\ rx = "open"
    /\ \E w \in ReadySlots :
        /\ consumed' = Append(consumed, Head(ochan[w]))
        /\ ochan' = [ochan EXCEPT ![w] = Tail(@)]
        /\ curr_receiver_idx' = IF FanInOrdered
                                THEN NextReceiverIdx(w, num_workers)
                                ELSE curr_receiver_idx
    /\ UNCHANGED << frame, runtime_stats, wstate,
                    childVars, distVars, wchan, wpc, wout, rx, hist >>

\* recv() on the node's output yields None: every slot is closed.
ConsumerSeesClosed ==
    /\ rx = "open"
    /\ \A w \in Workers : SlotClosed(w)
    /\ rx' = "closed"
    /\ UNCHANGED << frame, runtime_stats, wstate,
                    childVars, distVars, wchan, wpc, wout, ochan,
                    curr_receiver_idx, consumed, hist >>

\* The consumer drops the node's output receiver; what is queued is dropped.
ConsumerDrop ==
    /\ rx = "open"
    /\ rx' = "dropped"
    /\ ochan' = [w \in Workers |-> << >>]
    /\ UNCHANGED << frame, runtime_stats, wstate, childVars, distVars, wchan, wpc, wout,
                    curr_receiver_idx, consumed, hist >>

\* ------------------------------------------- IntermediateNode::start (199-224)
\* A start that goes on to the next step although the child's start failed.
StartChildIgnoringError ==
    /\ st.pc = "children"
    /\ \E ok \in BOOLEAN :
        LET i == Len(st.started) + 1
        IN st' = [st EXCEPT !.started = Append(@, ChildStart(i, maintain_order, ok)),
                            !.log = Append(@, "child"),
                            !.pc = IF i = num_children THEN "channel" ELSE "children"]
    /\ UNCHANGED << config, bulkVars, runtime_stats, wstate, childVars, distVars,
                    wchan, wpc, wout, ochan, consumerVars, hist >>

\* One turn of the loop of lines 205-208: the next child is started with the
\* flag start was given; `?` returns the child's error from start.
StartChild ==
    /\ st.pc = "children"
    /\ \E ok \in BOOLEAN :
        LET i == Len(st.started) + 1
        IN st' = [st EXCEPT !.started = Append(@, ChildStart(i, maintain_order, ok)),
                            !.log = Append(@, "child"),
                            !.result = IF ok THEN @ ELSE "Err",
                            !.pc = IF ~ok THEN "failed"
                                   ELSE IF i = num_children THEN "channel"
                                   ELSE "children"]
    /\ UNCHANGED << config, bulkVars, runtime_stats, wstate, childVars, distVars,
                    wchan, wpc, wout, ochan, consumerVars, hist >>

\* Lines 209-210: create_multi_channel(*NUM_CPUS, maintain_order).
StartCreateChannel ==
    /\ st.pc = "channel"
    /\ st' = [st EXCEPT !.channel = TRUE, !.log = Append(@, "channel"),
                        !.pc = "workers"]
    /\ UNCHANGED << config, bulkVars, runtime_stats, wstate, childVars, distVars,
                    wchan, wpc, wout, ochan, consumerVars, hist >>

\* One turn of the loop of spawn_workers (lines 111-124, called at 212-214):
\* a worker channel is created and run_worker is spawned on it.
StartSpawnWorker ==
    /\ st.pc = "workers"
    /\ LET w == st.spawned + 1
       IN /\ wpc' = [wpc EXCEPT ![w] = "spawned"]
          /\ st' = [st EXCEPT !.spawned = w, !.log = Append(@, "worker"),
                              !.pc = IF w = num_workers THEN "dist" ELSE "workers"]
    /\ UNCHANGED << config, bulkVars, runtime_stats, wstate, childVars, distVars,
                    wchan, wout, ochan, consumerVars, hist >>

\* Lines 215-222: send_to_workers is spawned over the children's receivers.
StartSpawnDist ==
    /\ st.pc = "dist"
    /\ dpc' = "recv"
    /\ st' = [st EXCEPT !.dist = TRUE, !.log = Append(@, "dist"), !.pc = "return"]
    /\ UNCHANGED << config, bulkVars, runtime_stats, wstate, childVars, idx, buffer,
                    next_worker_idx, dmsg, dtarget, dret, wchan, wpc, wout, ochan,
                    consumerVars, hist >>

\* Line 223: Ok(destination_receiver.into()); the caller now holds the receiver.
StartReturn ==
    /\ st.pc = "return"
    /\ rx' = "open"
    /\ st' = [st EXCEPT !.result = "Ok", !.log = Append(@, "return"),
                        !.pc = "returned"]
    /\ UNCHANGED << config, bulkVars, runtime_stats, wstate, childVars, distVars,
                    wchan, wpc, wout, ochan, curr_receiver_idx, consumed, hist >>

\* The body of a make-state step with a given object.
MakeStateWith(w, obj) ==
    /\ wpc[w] = "spawned"
    /\ wstate' = [wstate EXCEPT ![w] = [made |-> @.made + 1, obj |-> obj,
                                        dropped |-> FALSE]]
    /\ wpc' = [wpc EXCEPT ![w] = "recv"]
    /\ UNCHANGED << frame, runtime_stats, childVars, distVars, wchan, wout, ochan,
                    consumerVars, hist >>

\* A pool whose workers all get the one object made first.
WorkerMakeStateShared(w) == MakeStateWith(w, 1)

\* run_worker up to its first await (lines 80-82): op.make_state() is called and
\* the worker awaits its first input.
WorkerMakeState(w) == MakeStateWith(w, make_state)

\* ------------------------------------------- SendToVec::send_output (bulk.rs 70-93)
\* send_output(Ok(value)): pushed on the lanes when out is Ok (lines 73-81),
\* otherwise the internal error of lines 82-84 and out is left alone.
SendOutputOk ==
    /\ Len(calls) < MaxCalls
    /\ \E n \in 0..Len(out.lanes) : \E value \in [1..n -> 1..MaxValue] :
        /\ out' = IF out.ok THEN [out EXCEPT !.lanes = PushZipped(@, value)] ELSE out
        /\ calls' = Append(calls, [arg |-> OkArg(value),
                                   ret |-> IF out.ok THEN "Ok" ELSE "InternalError"])
    /\ UNCHANGED << config, st, runtime_stats, wstate, childVars, distVars, wchan,
                    wpc, wout, ochan, consumerVars, hist >>

\* send_output(Err(e)): the error is stored and the internal error returned
\* (lines 85-90).
SendOutputErr ==
    /\ Len(calls) < MaxCalls
    /\ \E e \in 1..MaxErrors :
        /\ out' = StoreErr(out, e)
        /\ calls' = Append(calls, [arg |-> ErrArg(e), ret |-> "InternalError"])
    /\ UNCHANGED << config, st, runtime_stats, wstate, childVars, distVars, wchan,
                    wpc, wout, ochan, consumerVars, hist >>

\* ------------------------------------------------------------ specification
Next ==
    \/ DistRecvData
    \/ DistRecvBroadcast
    \/ DistRecvErr
    \/ DistRecvClosed
    \/ DistSend
    \/ DistFlush
    \/ DistBroadcast
    \/ \E w \in Workers : WorkerExecute(w)
    \/ \E w \in Workers : WorkerClosed(w)
    \/ \E w \in Workers : WorkerSend(w)
    \/ ConsumerRecv
    \/ ConsumerSeesClosed
    \/ ConsumerDrop

Spec == Init /\ [][Next]_vars

\* The node over children that yield only Data envelopes and no error, with a
\* consumer that reads the output until it closes.
InitData ==
    InitWith(BOOLEAN, 1..MaxWorkers, 1..MaxMorsel, 1..MaxChildren, Operators,
             DataItems, MaxPartRows)

NextData ==
    \/ DistRecvData
    \/ DistRecvClosed
    \/ DistSend
    \/ DistFlush
    \/ \E w \in Workers : WorkerExecute(w)
    \/ \E w \in Workers : WorkerClosed(w)
    \/ \E w \in Workers : WorkerSend(w)
    \/ ConsumerRecv
    \/ ConsumerSeesClosed

DataSpec == InitData /\ [][NextData]_vars

\* The same node over one child, with an operator that never fails: the
\* identity-like one or the one that holds some inputs back.
InitLive ==
    InitWith(BOOLEAN, 1..MaxWorkers, 1..MaxMorsel, {1}, {"identity", "selective"},
             LiveItems, MaxPartRows)

LiveSpec == InitLive /\ [][NextData]_vars

\* The distribution task and one worker over one or more children, with the
\* partition sizes and target sizes of the OperatorBuffer explored further.
InitBuffer ==
    InitWith({FALSE}, {1}, 1..BufMorsel, 1..MaxChildren, {"identity"}, BufItems,
             BufPartRows)

BufferSpec == InitBuffer /\ [][NextData]_vars

\* start itself, from its call on, followed by the tasks it spawned, over
\* children whose start may fail and that yield only Data envelopes.
InitStart ==
    /\ maintain_order \in BOOLEAN
    /\ num_workers \in 1..MaxWorkers
    /\ morsel_size \in 1..MaxMorsel
    /\ num_children \in 1..MaxChildren
    /\ op \in {"identity", "fallible"}
    /\ next_row = 1
    /\ items_left = StartItems
    /\ part_rows = MaxPartRows
    /\ idx = 1
    /\ dpc = "unspawned"
    /\ buffer = << >>
    /\ next_worker_idx = 1
    /\ dmsg = NoMsg
    /\ dtarget = 0
    /\ dret = "recv"
    /\ wchan = [w \in Workers |-> << >>]
    /\ wpc = [w \in Workers |-> "unspawned"]
    /\ wout = [w \in Workers |-> NoOut]
    /\ ochan = [w \in Workers |-> << >>]
    /\ curr_receiver_idx = 1
    /\ rx = "none"
    /\ consumed = << >>
    /\ runtime_stats = NoStats
    /\ wstate = [w \in Workers |-> NoState]
    /\ st = NotStarted
    /\ out = NoCollector
    /\ calls = << >>
    /\ hist = NoHist

NextStart ==
    \/ StartChild
    \/ StartCreateChannel
    \/ StartSpawnWorker
    \/ StartSpawnDist
    \/ StartReturn
    \/ \E w \in Workers : WorkerMakeState(w)
    \/ NextData

StartSpec == InitStart /\ [][NextStart]_vars

\* The bulk output collector on its own: BulkPartitionTaskScheduler::execute has
\* made the output of 1..MaxLanes lanes and the scheduler calls send_output.
InitBulk ==
    /\ InitNode({FALSE}, {1}, {1}, {1}, {"identity"}, 0, 1)
    /\ \E n \in 1..MaxLanes : out = SendToVecNew(n)
    /\ calls = << >>

NextBulk ==
    \/ SendOutputOk
    \/ SendOutputErr

BulkSpec == InitBulk /\ [][NextBulk]_vars

\* A task is blocked when it awaits a send on a full queue or a receive on an
\* empty queue that is still open.
DistBlocked ==
    /\ dpc \in {"send", "bcast"}
    /\ ~SendFails(dtarget)
    /\ ~SendAccepted(dtarget)

WorkerBlocked(w) ==
    \/ wpc[w] = "recv" /\ Len(wchan[w]) = 0 /\ ~DistFinished
    \/ wpc[w] = "send" /\ ~OutputSendFails /\ ~OutputSendAccepted(w)

ConsumerBlocked ==
    /\ rx = "open"
    /\ ReadySlots = {}
    /\ \E w \in Workers : ~SlotClosed(w)

\* Every task that has not returned is blocked, and the consumer waits too.
Deadlocked ==
    /\ DistFinished \/ DistBlocked
    /\ \A w \in Workers : WorkerGone(w) \/ WorkerBlocked(w)
    /\ ConsumerBlocked

TypeOK ==
    /\ dpc \in {"unspawned", "recv", "send", "flush", "bcast", "done", "err"}
    /\ \A w \in Workers : wpc[w] \in {"unspawned", "spawned", "recv", "send", "ok", "err"}
    /\ rx \in {"none", "open", "closed", "dropped"}
    /\ st.pc \in {"children", "channel", "workers", "dist", "return", "returned",
                  "failed"}
    /\ next_worker_idx \in Workers
    /\ curr_receiver_idx \in Workers

\* ------------------------------------------------------------ what is observed
RECURSIVE Flat(_)
\* The rows of a sequence of envelopes, in order.
Flat(envs) == IF envs = << >> THEN << >> ELSE Head(envs).rows \o Flat(Tail(envs))

\* The rows the consumer has read from the node's output, in order.
ConsumedRows == Flat(consumed)

\* The rows the children have yielded so far are 1 .. YieldedRows.
YieldedRows == next_row - 1

Occurrences(r, rows) == Cardinality({i \in 1..Len(rows) : rows[i] = r})

IsPrefix(a, b) == Len(a) <= Len(b) /\ SubSeq(b, 1, Len(a)) = a

RECURSIVE Accepted(_)
\* The envelopes the worker channels accepted, in the order of the sends.
Accepted(sends) ==
    IF sends = << >> THEN << >>
    ELSE IF Head(sends).ok
         THEN << Head(sends).msg >> \o Accepted(Tail(sends))
         ELSE Accepted(Tail(sends))

\* Every task has returned and the consumer has read the output to its closure.
Drained == rx = "closed"

\* ------------------------------------------------------------------ claims
\* C1. Row conservation: with an identity-like operator over children that
\* yield only Data envelopes and no error, once the output receiver has been
\* drained to closure every row the children yielded has been read from the
\* output exactly once: no row is lost and none is duplicated, whatever the
\* pool width, the target morsel size, maintain_order and the interleaving.
C1_RowConservation ==
    (op = "identity" /\ Drained) =>
        /\ Len(ConsumedRows) = YieldedRows
        /\ \A r \in 1..YieldedRows : Occurrences(r, ConsumedRows) = 1

\* Rows split over two workers came out of the first-ready fan-in out of order,
\* and all of them came out.
C1_Witness ==
    /\ op = "identity"
    /\ Drained
    /\ ~maintain_order
    /\ num_workers = 2
    /\ YieldedRows >= 3
    /\ morsel_size = 2
    /\ \E i \in 1..(Len(ConsumedRows) - 1) : ConsumedRows[i] > ConsumedRows[i + 1]

Sent(k) == hist.dsends[k].msg
CallsOn(m) == {c \in [w : Workers, i : 1..Len(hist.dsends)] :
                  c.i <= Len(hist.log[c.w]) /\ hist.log[c.w][c.i].msg = m}
ResultFor(m) ==
    IF CallsOn(m) = {} THEN "none"
    ELSE LET c == CHOOSE c \in CallsOn(m) : TRUE IN hist.log[c.w][c.i].res

\* The number of execute results of worker w that carried a partition.
RECURSIVE PartitionsIn(_)
PartitionsIn(l) ==
    IF l = << >> THEN 0
    ELSE (IF HasPartition(Head(l).res) THEN 1 ELSE 0) + PartitionsIn(Tail(l))

\* The rows of the batches whose execute returned a partition.
ExecutedWithPartition ==
    {k \in 1..Len(hist.dsends) : hist.dsends[k].ok /\ HasPartition(ResultFor(Sent(k)))}

\* The operator failed on the second of three inputs: three batches were
\* distributed, execute returned a partition for the first and an error for
\* the second.
FailedOnSecondOfThree ==
    /\ dpc = "done"
    /\ Len(hist.dsends) = 3
    /\ ResultFor(Sent(1)) = "NeedMoreInput(Some)"
    /\ ResultFor(Sent(2)) = "Err"
    /\ ResultFor(Sent(3)) # "Err"

ErrorsRead == {i \in 1..Len(consumed) : consumed[i].kind = "Err"}

C4_NoDeadlock == ~Deadlocked

\* C5 as claimed: once a send of a worker on the output has failed (the
\* consumer dropped the receiver), that worker dequeues no further input and
\* makes no further execute call.
C5_WorkerExitsOnSendFailure ==
    [][\A w \in Workers : hist.ofail[w] > 0 => hist'.log[w] = hist.log[w]]_vars

\* C6 as claimed: after execute returned HasMoreOutput for an input, the next
\* execute call of that worker is on the same input: no new input is dequeued
\* between a HasMoreOutput result and the next NeedMoreInput result.
C6_HasMoreOutputReinvoked ==
    \A w \in Workers : \A i \in 1..(Len(hist.log[w]) - 1) :
        hist.log[w][i].res = "HasMoreOutput" =>
            hist.log[w][i + 1].msg = hist.log[w][i].msg

IsProbe(k) == Sent(k).kind = "ProbeTable"

\* The rows carried by the data batches sent or about to be sent, and held
\* by the OperatorBuffer.
BatchedRows ==
    UNION {{Sent(k).rows[j] : j \in 1..Len(Sent(k).rows)} :
              k \in {n \in 1..Len(hist.dsends) : Sent(n).kind = "Data"}}
      \cup (IF dmsg.kind = "Data" THEN {dmsg.rows[j] : j \in 1..Len(dmsg.rows)}
            ELSE {})
      \cup {buffer[j] : j \in 1..Len(buffer)}

\* C7. Broadcast delivery: a ProbeTable envelope read from a child is sent,
\* whole and tagged with the lane it was read from, to worker 1, 2, .. N in
\* turn, once each, before the distribution task does anything else; every one
\* of these sends is accepted unless that worker has already returned; the
\* envelope never enters the OperatorBuffer nor a data batch.
C7_BroadcastDelivery ==
    LET s == hist.dsends
        n == Len(hist.dsends)
    IN /\ \A k \in 1..n : IsProbe(k) =>
            /\ s[k].via = "broadcast"
            /\ Len(s[k].msg.rows) = 1
            /\ s[k].msg.rows[1] \notin BatchedRows
            /\ s[k].msg.idx \in 1..num_children
            /\ s[k].msg.idx <= idx
            /\ s[k].to \in Workers
            /\ s[k].to = 1 \/ (k > 1 /\ s[k - 1].msg = s[k].msg)
            /\ (k > 1 /\ s[k - 1].msg = s[k].msg) => s[k - 1].to = s[k].to - 1
            /\ s[k].to < num_workers =>
                 IF k < n
                 THEN s[k + 1].msg = s[k].msg /\ s[k + 1].to = s[k].to + 1
                 ELSE dpc = "bcast" /\ dmsg = s[k].msg /\ dtarget = s[k].to + 1
            /\ s[k].to = num_workers =>
                 \A j \in (k + 1)..n : s[j].msg # s[k].msg
            /\ s[k].ok \/ WorkerGone(s[k].to)
       /\ \A k \in 1..n : \A j \in 1..n : k < j => s[k].msg.idx <= s[j].msg.idx
       /\ dpc = "bcast" =>
            /\ dmsg.kind = "ProbeTable"
            /\ dmsg.idx = idx
            /\ dmsg.rows[1] \notin BatchedRows
            /\ dtarget \in Workers
            /\ dtarget > 1 => (n > 0 /\ s[n].msg = dmsg /\ s[n].to = dtarget - 1)
            /\ dtarget = 1 => \A k \in 1..n : s[k].msg # dmsg
       /\ dmsg.kind = "ProbeTable" <=> dpc = "bcast"

\* Two workers: a ProbeTable read from the second child has been accepted by
\* both worker channels, after a data batch of the first child was sent.
C7_Witness ==
    /\ num_workers = 2
    /\ \E k \in 2..(Len(hist.dsends) - 1) :
        /\ IsProbe(k)
        /\ Sent(k).idx = 2
        /\ hist.dsends[k].to = 1 /\ hist.dsends[k].ok
        /\ hist.dsends[k + 1].to = 2 /\ hist.dsends[k + 1].ok
        /\ Sent(k + 1) = Sent(k)
        /\ Sent(1).kind = "Data" /\ Sent(1).idx = 1
    /\ dpc # "bcast"

RECURSIVE AcceptedBy(_, _)
\* The envelopes the channel of worker w accepted, in the order of the sends.
AcceptedBy(sends, w) ==
    IF sends = << >> THEN << >>
    ELSE IF Head(sends).ok /\ Head(sends).to = w
         THEN << Head(sends).msg >> \o AcceptedBy(Tail(sends), w)
         ELSE AcceptedBy(Tail(sends), w)

\* The inputs worker w has dequeued, in order.
Dequeued(w) == [i \in 1..Len(hist.log[w]) |-> hist.log[w][i].msg]

\* C8. Backpressure: a worker channel never holds more than one pair; a send
\* to a live worker whose channel is full cannot complete; what the channel
\* of a worker accepted is, in order, what the worker has dequeued followed by
\* what is still queued (for a worker that failed: it dequeued a prefix).
C8_Backpressure ==
    \A w \in Workers :
        /\ Len(wchan[w]) <= 1
        /\ wpc[w] # "err" =>
             AcceptedBy(hist.dsends, w) = Dequeued(w) \o wchan[w]
        /\ wpc[w] = "err" =>
             IsPrefix(Dequeued(w), AcceptedBy(hist.dsends, w))
        /\ (dpc \in {"send", "bcast"} /\ dtarget = w /\ ~WorkerGone(w)
              /\ Len(wchan[w]) = 1) =>
             (~(ENABLED DistSend) /\ ~(ENABLED DistBroadcast))

\* The distribution task is suspended in a send to a worker that has dequeued
\* one input, is itself waiting to send its output, and has one pair queued.
C8_Witness ==
    /\ dpc = "send"
    /\ wpc[dtarget] = "send"
    /\ Len(wchan[dtarget]) = 1
    /\ Len(hist.log[dtarget]) = 1
    /\ AcceptedBy(hist.dsends, dtarget) = Dequeued(dtarget) \o wchan[dtarget]
    /\ ~(ENABLED DistSend)

RECURSIVE SumSeq(_)
SumSeq(q) == IF q = << >> THEN 0 ELSE Head(q) + SumSeq(Tail(q))

\* The indexes of the data batches sent for lane i, and the rows they carry.
LaneBatches(i) ==
    {k \in 1..Len(hist.dsends) : Sent(k).kind = "Data" /\ Sent(k).idx = i}

RECURSIVE RowsSentUpTo(_, _)
RowsSentUpTo(k, i) ==
    IF k = 0 THEN 0
    ELSE RowsSentUpTo(k - 1, i)
           + (IF k \in LaneBatches(i) THEN Len(Sent(k).rows) ELSE 0)
RowsSent(i) == RowsSentUpTo(Len(hist.dsends), i)

\* The rows of the batch whose send is pending.
RowsPending == IF dpc = "send" THEN Len(dmsg.rows) ELSE 0

\* C9. OperatorBuffer batching: every batch obtained from try_clear has
\* exactly morsel_size rows; a batch of another size comes from clear_all, is
\* not empty and is the last batch of its lane; for a lane that is finished
\* the rows of its batches add up to the rows pushed, and for the current lane
\* they do so together with the pending batch and the rows still buffered.
C9_BufferBatching ==
    /\ \A k \in 1..Len(hist.dsends) : Sent(k).kind = "Data" =>
         /\ hist.dsends[k].via \in {"try_clear", "clear_all"}
         /\ hist.dsends[k].via = "try_clear" => Len(Sent(k).rows) = morsel_size
         /\ Len(Sent(k).rows) # morsel_size =>
              /\ hist.dsends[k].via = "clear_all"
              /\ Len(Sent(k).rows) > 0
              /\ \A j \in LaneBatches(Sent(k).idx) : j <= k
              /\ Sent(k).idx < idx \/ dpc \in {"send", "flush"}
    /\ dpc = "send" =>
         /\ hist.via = "try_clear" => Len(dmsg.rows) = morsel_size
         /\ hist.via = "clear_all" => Len(dmsg.rows) \in 1..(morsel_size - 1)
    /\ \A i \in 1..num_children :
         /\ i < idx => RowsSent(i) = SumSeq(hist.pushed[i])
         /\ i = idx =>
              RowsSent(i) + RowsPending + Len(buffer) = SumSeq(hist.pushed[i])
         /\ i > idx => RowsSent(i) = 0 /\ hist.pushed[i] = << >>

\* Partitions of 2, 3 and 1 rows pushed with a target of 4: a batch of rows
\* 1..4 from try_clear, then a batch of rows 5 and 6 from clear_all.
C9_Witness ==
    /\ morsel_size = 4
    /\ num_children = 1
    /\ hist.pushed[1] = << 2, 3, 1 >>
    /\ dpc = "done"
    /\ Len(hist.dsends) = 2
    /\ Sent(1).rows = << 1, 2, 3, 4 >> /\ hist.dsends[1].via = "try_clear"
    /\ Sent(2).rows = << 5, 6 >> /\ hist.dsends[2].via = "clear_all"

RECURSIVE SumOver(_, _)
SumOver(f, n) == IF n = 0 THEN 0 ELSE f[n] + SumOver(f, n - 1)

\* C10. Output count: each worker has sent (or is sending) on the output
\* exactly one envelope per execute result that carried a partition, the one
\* that result carried, and nothing for NeedMoreInput(None); the envelopes
\* accepted by the output are those the consumer read and those still in the
\* slots; once drained the consumer has read as many as results carried one.
C10_OutputCount ==
    /\ \A w \in Workers :
         LET l == hist.log[w]
         IN /\ hist.osent[w] + hist.ofail[w]
                 + (IF wpc[w] = "send" THEN 1 ELSE 0) = PartitionsIn(l)
            /\ wpc[w] = "send" =>
                 /\ Len(l) > 0
                 /\ HasPartition(l[Len(l)].res)
                 /\ wout[w] = OutputOf(l[Len(l)].msg)
            /\ wpc[w] # "send" => wout[w] = NoOut
    /\ SumOver(hist.osent, num_workers)
         = Len(consumed) + SumOver([w \in Workers |-> Len(ochan[w])], num_workers)
    /\ Drained =>
         Len(consumed)
           = SumOver([w \in Workers |-> PartitionsIn(hist.log[w])], num_workers)

\* One worker: execute returned NeedMoreInput(None) for the first two inputs
\* and NeedMoreInput(Some(p)) for the third; the consumer read p and nothing
\* else before the output closed.
C10_Witness ==
    /\ num_workers = 1
    /\ Len(hist.log[1]) = 3
    /\ hist.log[1][1].res = "NeedMoreInput(None)"
    /\ hist.log[1][2].res = "NeedMoreInput(None)"
    /\ hist.log[1][3].res = "NeedMoreInput(Some)"
    /\ Drained
    /\ consumed = << OutputOf(hist.log[1][3].msg) >>

RECURSIVE RowsDequeued(_)
\* The rows of the inputs a worker has dequeued.
RowsDequeued(l) ==
    IF l = << >> THEN 0 ELSE Len(Head(l).msg.rows) + RowsDequeued(Tail(l))

RECURSIVE RowsOfFirst(_, _)
\* The rows of the first n partitions that the results of l carried.
RowsOfFirst(l, n) ==
    IF n = 0 \/ l = << >> THEN 0
    ELSE IF HasPartition(Head(l).res)
         THEN Len(OutputOf(Head(l).msg).rows) + RowsOfFirst(Tail(l), n - 1)
         ELSE RowsOfFirst(Tail(l), n)

\* C11. Runtime statistics: rows_received is the total row count of the
\* envelopes the workers have dequeued (failed executes and every worker's
\* copy of a broadcast envelope included); rows_emitted is the total row count
\* of the envelopes whose send on the output has completed, which, while the
\* consumer holds the receiver, are the envelopes read and those in the
\* slots; a pending send completes exactly when the channel lets it.
C11_StatsExact ==
    /\ runtime_stats.rows_received
         = SumOver([w \in Workers |-> RowsDequeued(hist.log[w])], num_workers)
    /\ runtime_stats.rows_emitted
         = SumOver([w \in Workers |->
                      RowsOfFirst(hist.log[w], hist.osent[w] + hist.ofail[w])],
                   num_workers)
    /\ rx # "dropped" =>
         runtime_stats.rows_emitted
           = Len(ConsumedRows)
               + SumOver([w \in Workers |-> Len(Flat(ochan[w]))], num_workers)
    /\ \A w \in Workers :
         wpc[w] = "send" =>
           ((ENABLED WorkerSend(w)) <=> (OutputSendFails \/ OutputSendAccepted(w)))

\* Two workers each dequeued their copy of a one-row ProbeTable envelope, one
\* of them a one-row data batch as well: three rows received; the three
\* outputs were sent and read: three rows emitted.
C11_Witness ==
    /\ num_workers = 2
    /\ \E i \in 1..Len(hist.log[1]) : \E j \in 1..Len(hist.log[2]) :
         /\ hist.log[1][i].msg.kind = "ProbeTable"
         /\ hist.log[2][j].msg = hist.log[1][i].msg
    /\ runtime_stats.rows_received = 3
    /\ runtime_stats.rows_emitted = 3
    /\ Len(ConsumedRows) = 3

\* The sends of non-broadcast batches, by their index among all sends.
DataSends == {k \in 1..Len(hist.dsends) : Sent(k).kind = "Data"}
DataSendsBefore(k) == Cardinality({j \in DataSends : j < k})

\* The non-broadcast batches handed to worker w, the pending one included.
HandedTo(w) ==
    Cardinality({k \in DataSends : hist.dsends[k].to = w})
      + (IF dpc = "send" /\ dtarget = w THEN 1 ELSE 0)

\* C12. Round-robin distribution: the k-th non-broadcast batch (k from 0,
\* across all lanes, broadcasts not counted) goes to worker k mod N (workers
\* are numbered from 1 here), the cursor is where that count puts it, and the
\* numbers of batches handed to two workers never differ by more than one.
C12_RoundRobin ==
    /\ \A k \in DataSends :
         hist.dsends[k].to = (DataSendsBefore(k) % num_workers) + 1
    /\ dpc = "send" => dtarget = (Cardinality(DataSends) % num_workers) + 1
    /\ next_worker_idx
         = ((Cardinality(DataSends) + (IF dpc = "send" THEN 1 ELSE 0))
              % num_workers) + 1
    /\ \A w \in Workers : \A v \in Workers : HandedTo(w) - HandedTo(v) <= 1

\* Two workers: a data batch went to worker 1, then a ProbeTable envelope to
\* both workers, then the next data batch to worker 2.
C12_Witness ==
    /\ num_workers = 2
    /\ Len(hist.dsends) = 4
    /\ Sent(1).kind = "Data" /\ hist.dsends[1].to = 1
    /\ IsProbe(2) /\ hist.dsends[2].to = 1
    /\ IsProbe(3) /\ hist.dsends[3].to = 2
    /\ Sent(4).kind = "Data" /\ hist.dsends[4].to = 2

\* The execute calls that failed, as (worker, position in its log).
FailedCalls ==
    UNION {{[w |-> w, i |-> i] :
              i \in {j \in 1..Len(hist.log[w]) : hist.log[w][j].res = "Err"}} :
           w \in Workers}

\* C13. A failed execute terminates the worker it happened in and only that
\* one: the failed call is the last entry of that worker's log and the worker
\* has returned the error, with no send pending and every send it made
\* completed before; the failed input is executed again by nobody (another
\* worker only executes its own copy of a broadcast envelope); a live worker
\* that has an input queued can still execute it; the outputs already
\* accepted by the output are still there to read or have been read.
C13_FailureStopsOnlyItsWorker ==
    /\ \A c \in FailedCalls :
         /\ c.i = Len(hist.log[c.w])
         /\ wpc[c.w] = "err"
         /\ wout[c.w] = NoOut
         /\ wchan[c.w] = << >>
         /\ hist.osent[c.w] + hist.ofail[c.w] = PartitionsIn(hist.log[c.w])
         /\ \A v \in Workers : \A j \in 1..Len(hist.log[v]) :
              (hist.log[v][j].msg = hist.log[c.w][c.i].msg /\ << v, j >> # << c.w, c.i >>)
                => (v # c.w /\ hist.log[v][j].msg.kind = "ProbeTable")
    /\ \A w \in Workers :
         /\ wpc[w] = "err" => [w |-> w, i |-> Len(hist.log[w])] \in FailedCalls
         /\ (wpc[w] = "recv" /\ Len(wchan[w]) > 0) => ENABLED WorkerExecute(w)
    /\ rx # "dropped" =>
         Len(consumed) + SumOver([w \in Workers |-> Len(ochan[w])], num_workers)
           = SumOver(hist.osent, num_workers)

\* Two workers: worker 1 sent the output of its first input and failed on its
\* second; worker 2 executed both of its inputs; the consumer read the three
\* outputs before the output closed.
C13_Witness ==
    /\ num_workers = 2
    /\ wpc[1] = "err"
    /\ Len(hist.log[1]) = 2
    /\ hist.log[1][1].res = "NeedMoreInput(Some)"
    /\ Len(hist.log[2]) = 2
    /\ hist.log[2][1].res = "NeedMoreInput(Some)"
    /\ hist.log[2][2].res = "NeedMoreInput(Some)"
    /\ hist.log[2][2].msg.rows[1] > hist.log[1][2].msg.rows[1]
    /\ Drained
    /\ Len(consumed) = 3

\* The distribution task is past the end of the current child's stream.
Flushing == dpc = "flush" \/ (dpc = "send" /\ dret \in {"flush", "next"})

\* C14. End-of-stream flush: once a child's receiver has closed nothing more
\* is read until the lane is flushed; a flush batch made while morsel_size
\* rows or more are buffered is the first morsel_size rows; the remainder is
\* sent only when fewer than morsel_size rows are left and it is not empty,
\* and it empties the buffer; every batch is tagged with the lane being
\* flushed and no batch is empty; the task moves to the next child only with
\* an empty buffer and no send pending.
C14_EndOfStreamFlush ==
    [][LET batch == dpc' = "send" /\ dpc # "send"
       IN /\ Flushing => (next_row' = next_row /\ items_left' = items_left)
          /\ batch => (Len(dmsg'.rows) > 0 /\ dmsg'.idx = idx /\ idx' = idx)
          /\ (batch /\ dret' = "flush") =>
               /\ Len(buffer) >= morsel_size
               /\ dmsg'.rows = SubSeq(buffer, 1, morsel_size)
               /\ buffer' = SubSeq(buffer, morsel_size + 1, Len(buffer))
          /\ (batch /\ dret' = "next") =>
               /\ Len(buffer) \in 1..(morsel_size - 1)
               /\ dmsg'.rows = buffer
               /\ buffer' = << >>
          /\ idx' # idx =>
               /\ idx' = idx + 1
               /\ buffer = << >> /\ buffer' = << >>
               /\ dmsg' = NoMsg
               /\ dpc = "recv" \/ Flushing
      ]_vars

\* Target 2 and two children: three partitions of 3 rows left 3 rows buffered
\* when the first child closed; a batch of 2 rows and then the remainder of 1
\* row were sent; the second child closed at once and nothing was sent for it.
C14_Witness ==
    /\ morsel_size = 2
    /\ num_children = 2
    /\ hist.pushed = << << 3, 3, 3 >>, << >> >>
    /\ dpc = "done"
    /\ Len(hist.dsends) = 5
    /\ Sent(4).rows = << 7, 8 >> /\ hist.dsends[4].via = "try_clear"
    /\ Sent(5).rows = << 9 >> /\ hist.dsends[5].via = "clear_all"
    /\ \A k \in 1..5 : Sent(k).idx = 1

\* C15. Upstream error: send_to_workers returns a child's error straight from
\* the receive that yielded it, with no send pending and the lane's buffer
\* left as it is; once it has returned the error it sends nothing, reads
\* nothing and flushes nothing; its senders are dropped, so a worker whose
\* queue is empty sees its channel closed.
C15_UpstreamError ==
    [][/\ (dpc' = "err" /\ dpc # "err") =>
            /\ dpc = "recv"
            /\ dmsg = NoMsg /\ dmsg' = NoMsg
            /\ buffer' = buffer
            /\ next_row' = next_row
            /\ idx' = idx
            /\ hist'.dsends = hist.dsends
       /\ dpc = "err" =>
            /\ UNCHANGED << distVars, childVars >>
            /\ hist'.dsends = hist.dsends
            /\ hist'.pushed = hist.pushed
            /\ \A w \in Workers : Len(wchan'[w]) <= Len(wchan[w])
            /\ \A w \in Workers :
                 (wpc[w] = "recv" /\ wchan[w] = << >>) => wpc'[w] \in {"recv", "ok"}
       /\ dpc' = "err" =>
            /\ DistFinished'
            /\ \A w \in Workers : wpc'[w] = "ok" => wchan'[w] = << >>
      ]_vars

\* Target 1: of a 2-row partition one row was sent and executed, the other
\* was still buffered when the child yielded an error; the distribution task
\* returned it, the row stays buffered, every worker has returned Ok and the
\* output has closed.
C15_Witness ==
    /\ dpc = "err"
    /\ morsel_size = 1
    /\ buffer = << 2 >>
    /\ Len(hist.dsends) = 1
    /\ Len(hist.log[1]) = 1
    /\ \A w \in Workers : wpc[w] = "ok"
    /\ rx = "closed"
    /\ consumed = << Data(<< 1 >>) >>

\* The lanes of a sequence of (lane, envelope) pairs never go down.
LanesInOrder(q) == \A i \in 1..Len(q) : \A j \in 1..Len(q) : i < j => q[i].idx <= q[j].idx

\* The sends of the ProbeTable envelope m that have completed.
CopiesSent(m) == Cardinality({k \in 1..Len(hist.dsends) : Sent(k) = m})

\* C18. Lanes one after another: the sends of the distribution task, what
\* each worker channel accepted and what each worker dequeued and still has
\* queued are in lane order; nothing is sent for a lane later than the one
\* being read, and the pending send belongs to the lane being read; every
\* lane before it is complete: its rows were all sent, in batches tagged with
\* that lane, and its broadcast envelopes were sent to every worker.
C18_LanesInSequence ==
    /\ LanesInOrder([k \in 1..Len(hist.dsends) |-> Sent(k)])
    /\ \A k \in 1..Len(hist.dsends) : Sent(k).idx <= idx /\ Sent(k).idx <= num_children
    /\ dpc \in {"send", "bcast"} => dmsg.idx = idx
    /\ \A w \in Workers :
         /\ LanesInOrder(AcceptedBy(hist.dsends, w))
         /\ LanesInOrder(Dequeued(w) \o wchan[w])
    /\ \A i \in 1..num_children :
         /\ RowsSent(i) <= SumSeq(hist.pushed[i])
         /\ i < idx =>
              /\ RowsSent(i) = SumSeq(hist.pushed[i])
              /\ \A k \in 1..Len(hist.dsends) :
                   (IsProbe(k) /\ Sent(k).idx = i) => CopiesSent(Sent(k)) = num_workers
         /\ i > idx => hist.pushed[i] = << >>
    /\ idx <= num_children => RowsSent(idx) + RowsPending + Len(buffer)
                                = SumSeq(hist.pushed[idx])

\* Two workers and two children: each worker executed one data batch of the
\* first child and then its copy of a ProbeTable envelope of the second.
C18_Witness ==
    /\ num_workers = 2
    /\ num_children = 2
    /\ \A w \in Workers :
         /\ Len(hist.log[w]) = 2
         /\ hist.log[w][1].msg.idx = 1 /\ hist.log[w][1].msg.kind = "Data"
         /\ hist.log[w][2].msg.idx = 2 /\ hist.log[w][2].msg.kind = "ProbeTable"

\* C16. Start protocol: the children are started once each, in child order,
\* with the flag start was given; a child whose start failed is the last one
\* started, start has returned that error and nothing was created or spawned;
\* the multi-channel is created and tasks are spawned only after every child
\* has started, in the order channel, workers, distribution task, return;
\* when start returns Ok it has spawned num_workers workers and the one
\* distribution task, and the return waits for nothing.
C16_StartProtocol ==
    LET n == Len(st.started)
    IN /\ n <= num_children
       /\ \A i \in 1..n :
            /\ st.started[i].child = i
            /\ st.started[i].order = maintain_order
            /\ ~st.started[i].ok =>
                 /\ i = n
                 /\ st.result = "Err"
       /\ IsPrefix(st.log, Started.log)
       /\ (st.channel \/ st.spawned > 0 \/ st.dist) =>
            /\ n = num_children
            /\ \A i \in 1..n : st.started[i].ok
            /\ st.channel
       /\ st.dist => st.spawned = num_workers
       /\ Cardinality({w \in Workers : wpc[w] # "unspawned"}) = st.spawned
       /\ st.dist <=> dpc # "unspawned"
       /\ st.result = "Err" =>
            /\ st.pc = "failed"
            /\ ~st.channel /\ st.spawned = 0 /\ ~st.dist
            /\ \A w \in Workers : wpc[w] = "unspawned"
            /\ dpc = "unspawned"
            /\ rx = "none"
       /\ st.result = "Ok" =>
            /\ st.pc = "returned"
            /\ st = Started
            /\ rx # "none"
       /\ st.result = "none" => rx = "none"
       /\ st.pc = "return" => ENABLED StartReturn

\* Two children, two workers: start has returned Ok after starting both
\* children, creating the channel and spawning two workers and the
\* distribution task, and no child has been read yet.
C16_Witness ==
    /\ num_children = 2
    /\ num_workers = 2
    /\ st.result = "Ok"
    /\ st.log = << "child", "child", "channel", "worker", "worker", "dist", "return" >>
    /\ dpc = "recv"
    /\ next_row = 1
    /\ items_left = StartItems
    /\ rx = "open"

\* C17. Operator state: a worker that has started has called make_state
\* exactly once, and did so before it dequeued anything; every execute call of
\* a worker was given the object that worker made; no object is held by, or
\* was given to execute by, two workers; the object is dropped exactly when
\* the worker's task has returned.
C17_PrivateState ==
    \A w \in Workers :
        /\ wstate[w].made = (IF wpc[w] \in {"unspawned", "spawned"} THEN 0 ELSE 1)
        /\ wstate[w].made = 0 => (hist.log[w] = << >> /\ wstate[w].obj = 0)
        /\ wstate[w].made = 1 => wstate[w].obj # 0
        /\ \A i \in 1..Len(hist.log[w]) : hist.log[w][i].state = wstate[w].obj
        /\ \A v \in Workers \ {w} :
             /\ wstate[w].made = 1 => wstate[v].obj # wstate[w].obj
             /\ \A i \in 1..Len(hist.log[w]) : \A j \in 1..Len(hist.log[v]) :
                  hist.log[w][i].state # hist.log[v][j].state
        /\ wstate[w].dropped <=> WorkerGone(w)

\* Two workers made their states, worker 2 first; each executed an input with
\* its own state; both tasks have returned and dropped their states.
C17_Witness ==
    /\ num_workers = 2
    /\ wstate[2].obj = 1 /\ wstate[1].obj = 2
    /\ Len(hist.log[1]) > 0 /\ hist.log[1][1].state = 2
    /\ Len(hist.log[2]) > 0 /\ hist.log[2][1].state = 1
    /\ wstate[1].dropped /\ wstate[2].dropped
    /\ wpc[1] = "ok" /\ wpc[2] = "err"

\* The calls that sent an error, by their position.
ErrCalls == {k \in 1..Len(calls) : calls[k].arg.kind = "Err"}

RECURSIVE LaneOf(_, _)
\* The i-th elements of the values of a sequence of calls, in send order.
LaneOf(cs, i) ==
    IF cs = << >> THEN << >>
    ELSE (IF Head(cs).arg.kind = "Ok" /\ i <= Len(Head(cs).arg.value)
          THEN << Head(cs).arg.value[i] >> ELSE << >>) \o LaneOf(Tail(cs), i)

\* C19 as claimed: while no error has been sent every call returned Ok and
\* lane i holds the i-th elements of the values sent, in send order; once an
\* error has been sent the collected result is the first error sent, whatever
\* was sent after it, the calls before it returned Ok, and that call and every
\* later one returned the internal error.
C19_FirstErrorKept ==
    /\ ErrCalls = {} =>
         /\ out.ok
         /\ \A i \in 1..Len(out.lanes) : out.lanes[i] = LaneOf(calls, i)
         /\ \A k \in 1..Len(calls) : calls[k].ret = "Ok"
    /\ ErrCalls # {} =>
         LET first == Min(ErrCalls)
         IN /\ ~out.ok
            /\ out.err = calls[first].arg.err
            /\ \A k \in 1..Len(calls) :
                 calls[k].ret = (IF k < first THEN "Ok" ELSE "InternalError")

====
